---------------------------- MODULE Spec2Model ----------------------------
(***************************************************************************)
(* Model of storeroom/src/coefficient.cpp: the abstract class abc_Widmark  *)
(* (operator() dispatching on Sex to the virtual forward_F / forward_M)    *)
(* and its six subclasses Widmark, Watson, Forrest, Seidl, Ulrich and      *)
(* Average, together with the three entry points the pybind11 module       *)
(* exposes (forward_F, forward_M, __call__).                               *)
(*                                                                         *)
(* A C++ double is modelled as one of                                      *)
(*    - a finite value: sign s, magnitude n/d (n >= 0, d >= 1, reduced),   *)
(*      so that +0.0 and -0.0 are distinct;                                *)
(*    - an infinity with sign s;                                           *)
(*    - NaN.                                                               *)
(* The special values follow IEEE 754 (x/0, 0/0, inf-inf, 0*inf, signed    *)
(* zeros).  Finite arithmetic is exact: the rounding of each operation to  *)
(* 53 bits (relative error about 1e-16) is not modelled.                   *)
(***************************************************************************)
EXTENDS Integers, Sequences, FiniteSets, TLC

VARIABLES frame, memo

vars == <<frame, memo>>

(***************************************************************************)
(* double                                                                  *)
(***************************************************************************)
RECURSIVE Gcd(_, _)
Gcd(a, b) == IF b = 0 THEN a ELSE Gcd(b, a % b)

Pow10(e) == CASE e = 0 -> 1 [] e = 1 -> 10 [] e = 2 -> 100 [] e = 3 -> 1000
              [] e = 4 -> 10000 [] e = 5 -> 100000 [] e = 6 -> 1000000

NaN == [c |-> "nan", s |-> 1, n |-> 0, d |-> 1]

Inf(s) == [c |-> "inf", s |-> s, n |-> 0, d |-> 1]

\* the finite double of sign s and magnitude n/d, in lowest terms
Fin(s, n, d) == LET k == Gcd(n, d)
                IN  [c |-> "fin", s |-> s, n |-> n \div k, d |-> d \div k]

\* a decimal literal of the source: 0.29218 is Dec(29218, 5)
Dec(m, e) == Fin(1, m, Pow10(e))

\* the int literal k converted to double, as in (1 / W)
FromInt(k) == IF k < 0 THEN Fin(-1, -k, 1) ELSE Fin(1, k, 1)

IsZero(x) == x.c = "fin" /\ x.n = 0

DNeg(x) == IF x.c = "nan" THEN NaN ELSE [x EXCEPT !.s = -x.s]

\* x * y
DMul(x, y) ==
  IF x.c = "nan" \/ y.c = "nan" THEN NaN
  ELSE IF x.c = "inf" \/ y.c = "inf"
       THEN IF IsZero(x) \/ IsZero(y) THEN NaN ELSE Inf(x.s * y.s)
       ELSE LET g1 == Gcd(x.n, y.d)
                g2 == Gcd(y.n, x.d)
            IN  Fin(x.s * y.s, (x.n \div g1) * (y.n \div g2),
                               (x.d \div g2) * (y.d \div g1))

\* x / y
DDiv(x, y) ==
  IF x.c = "nan" \/ y.c = "nan" THEN NaN
  ELSE IF x.c = "inf"
       THEN IF y.c = "inf" THEN NaN ELSE Inf(x.s * y.s)
       ELSE IF y.c = "inf" THEN Fin(x.s * y.s, 0, 1)
       ELSE IF y.n = 0
            THEN IF x.n = 0 THEN NaN ELSE Inf(x.s * y.s)
            ELSE LET g1 == Gcd(x.n, y.n)
                     g2 == Gcd(y.d, x.d)
                 IN  Fin(x.s * y.s, (x.n \div g1) * (y.d \div g2),
                                    (x.d \div g2) * (y.n \div g1))

\* x + y
DAdd(x, y) ==
  IF x.c = "nan" \/ y.c = "nan" THEN NaN
  ELSE IF x.c = "inf"
       THEN IF y.c = "inf" /\ y.s # x.s THEN NaN ELSE x
       ELSE IF y.c = "inf" THEN y
       ELSE LET k   == Gcd(x.d, y.d)
                l   == (x.d \div k) * y.d
                sum == x.s * x.n * (l \div x.d) + y.s * y.n * (l \div y.d)
            IN  IF sum > 0 THEN Fin(1, sum, l)
                ELSE IF sum < 0 THEN Fin(-1, -sum, l)
                ELSE IF x.n = 0 /\ y.n = 0 /\ x.s = -1 /\ y.s = -1
                     THEN Fin(-1, 0, 1)
                     ELSE Fin(1, 0, 1)

\* x - y
DSub(x, y) == DAdd(x, DNeg(y))


(***************************************************************************)
(* Outcome of a call: a returned double, or a thrown std::invalid_argument *)
(* carrying its what() message.                                            *)
(***************************************************************************)
Value(v) == [k |-> "return", v |-> v, what |-> ""]

Throw(msg) == [k |-> "throw", v |-> NaN, what |-> msg]

\* enum class Sex { M, F }: the enumerators' underlying values
Sex_M == 0
Sex_F == 1

Classes == {"Widmark", "Watson", "Forrest", "Seidl", "Ulrich", "Average"}

(***************************************************************************)
(* The six subclasses of abc_Widmark                                       *)
(***************************************************************************)
Widmark_forward_F(H, W, g) == Value(Dec(55, 2))

Widmark_forward_M(H, W, g) == Value(Dec(68, 2))

\* Watson::forward_F rejecting a zero weight instead of dividing by it
Watson_forward_F_guarded(H, W, g) ==
  IF IsZero(W) THEN Throw("Invalid weight")
  ELSE Value(DAdd(Dec(29218, 5),
                  DDiv(DSub(DMul(Dec(12666, 3), H), Dec(24846, 4)), W)))

\* Watson::forward_F without the parentheses around the numerator
Watson_forward_F_noparen(H, W, g) ==
  Value(DSub(DAdd(Dec(29218, 5), DMul(Dec(12666, 3), H)),
             DDiv(Dec(24846, 4), W)))

Watson_forward_F(H, W, g) ==
  Value(DAdd(Dec(29218, 5),
             DDiv(DSub(DMul(Dec(12666, 3), H), Dec(24846, 4)), W)))

Watson_forward_M(H, W, g) ==
  Value(DAdd(Dec(39834, 5),
             DDiv(DAdd(DSub(DMul(Dec(12725, 3), H), DMul(Dec(11275, 5), g)),
                       Dec(28993, 4)),
                  W)))

Forrest_forward_F(H, W, g) ==
  Value(DSub(Dec(8736, 4), DDiv(DMul(Dec(124, 4), W), DMul(H, H))))

\* Forrest::forward_M dividing by H instead of H * H
Forrest_forward_M_nosquare(H, W, g) ==
  Value(DSub(Dec(10178, 4), DDiv(DMul(Dec(12127, 6), W), H)))

Forrest_forward_M(H, W, g) ==
  Value(DSub(Dec(10178, 4), DDiv(DMul(Dec(12127, 6), W), DMul(H, H))))

\* Seidl::forward_F with the adjustment term of Watson::forward_M pasted in
Seidl_forward_F_with_g(H, W, g) ==
  Value(DSub(DAdd(DSub(Dec(31223, 5), DMul(Dec(6446, 6), W)), DMul(Dec(4466, 4), H)),
             DMul(Dec(11275, 5), g)))

Seidl_forward_F(H, W, g) ==
  Value(DAdd(DSub(Dec(31223, 5), DMul(Dec(6446, 6), W)), DMul(Dec(4466, 4), H)))

\* Seidl::forward_M with two digits of 0.4632 transposed
Seidl_forward_M_typo(H, W, g) ==
  Value(DAdd(DSub(Dec(31608, 5), DMul(Dec(4821, 6), W)), DMul(Dec(4362, 4), H)))

Seidl_forward_M(H, W, g) ==
  Value(DAdd(DSub(Dec(31608, 5), DMul(Dec(4821, 6), W)), DMul(Dec(4632, 4), H)))

\* Ulrich::forward_F falling back on the male formula
Ulrich_forward_F_as_male(H, W, g) ==
  Value(DAdd(DSub(Dec(715, 3), DMul(Dec(462, 5), W)), DMul(Dec(22, 2), H)))

Ulrich_forward_F(H, W, g) == Throw("No estimator available")

Ulrich_forward_M(H, W, g) ==
  Value(DAdd(DSub(Dec(715, 3), DMul(Dec(462, 5), W)), DMul(Dec(22, 2), H)))

Average_forward_F(H, W, g) ==
  Value(DSub(DSub(DAdd(Dec(50766, 5), DMul(Dec(11165, 5), H)),
                  DMul(W, DAdd(Dec(1612, 6), DDiv(Dec(31, 4), DMul(H, H))))),
             DMul(DDiv(FromInt(1), W),
                  DSub(Dec(62115, 5), DMul(Dec(31665, 4), H)))))

Average_forward_M(H, W, g) ==
  Value(DAdd(DSub(DAdd(Dec(62544, 5), DMul(Dec(13664, 5), H)),
                  DMul(W, DAdd(Dec(189, 5), DDiv(Dec(2425, 6), DMul(H, H))))),
             DMul(DDiv(FromInt(1), W),
                  DSub(DAdd(Dec(57986, 5), DMul(Dec(2545, 3), H)),
                       DMul(Dec(2255, 5), g)))))

(***************************************************************************)
(* abc_Widmark: the virtual calls, resolved on the dynamic type of *this,  *)
(* and operator()                                                          *)
(***************************************************************************)
forward_F(self, H, W, g) ==
  CASE self = "Widmark" -> Widmark_forward_F(H, W, g)
    [] self = "Watson"  -> Watson_forward_F(H, W, g)
    [] self = "Forrest" -> Forrest_forward_F(H, W, g)
    [] self = "Seidl"   -> Seidl_forward_F(H, W, g)
    [] self = "Ulrich"  -> Ulrich_forward_F(H, W, g)
    [] self = "Average" -> Average_forward_F(H, W, g)

forward_M(self, H, W, g) ==
  CASE self = "Widmark" -> Widmark_forward_M(H, W, g)
    [] self = "Watson"  -> Watson_forward_M(H, W, g)
    [] self = "Forrest" -> Forrest_forward_M(H, W, g)
    [] self = "Seidl"   -> Seidl_forward_M(H, W, g)
    [] self = "Ulrich"  -> Ulrich_forward_M(H, W, g)
    [] self = "Average" -> Average_forward_M(H, W, g)

operator_call(self, sex, H, W, g) ==
  IF sex = Sex_F THEN forward_F(self, H, W, g)
  ELSE IF sex = Sex_M THEN forward_M(self, H, W, g)
  ELSE Throw("Invalid sex")


(***************************************************************************)
(* Callers.  Each thread runs calls one after the other; frame[t] is the   *)
(* activation of the call thread t is in: the entry point used, the        *)
(* object it is called on (by its dynamic type), the by-value arguments,   *)
(* the position in the code, the functions entered so far and the outcome. *)
(* The classes have no data members, so an object has no state besides     *)
(* its dynamic type.                                                       *)
(***************************************************************************)
NumThreads == 2

Threads == 1 .. NumThreads

\* values a Sex argument can hold: the two enumerators and a value that is
\* neither of them, static_cast<Sex>(2)
SexTags == {Sex_M, Sex_F, 2}

\* entry points bound by PYBIND11_MODULE on abc_Widmark
Entries == {"__call__", "forward_F", "forward_M"}

\* 1.70, 0.0, -1.5, 2.0
Heights == {Fin(1, 17, 10), Fin(1, 0, 1), Fin(-1, 3, 2), Fin(1, 2, 1)}

\* 70.0, 0.0, -0.0, -50.0, 85.0
Weights == {Fin(1, 70, 1), Fin(1, 0, 1), Fin(-1, 0, 1), Fin(-1, 50, 1),
            Fin(1, 85, 1)}

\* 18.0, 0.0, 40.0
Adjustments == {Fin(1, 18, 1), Fin(1, 0, 1), Fin(1, 40, 1)}

Zero == Fin(1, 0, 1)

Idle == [pc |-> "idle", entry |-> "", self |-> "", sex |-> Sex_M,
         H |-> Zero, W |-> Zero, g |-> Zero, entered |-> {}, ret |-> Value(Zero)]

NoMemo == [entry |-> "", self |-> "", sex |-> Sex_M,
           H |-> Zero, W |-> Zero, g |-> Zero, ret |-> Value(Zero)]

\* the arguments kept in one static area that every call overwrites: a
\* thread reads those of another call in progress
Args_static(t) ==
  IF \E u \in DOMAIN frame : u # t /\ frame[u].pc # "idle"
  THEN frame[CHOOSE u \in DOMAIN frame : u # t /\ frame[u].pc # "idle"]
  ELSE frame[t]

\* the activation thread t executes in: its own
Args(t) == frame[t]

Init == /\ frame = [t \in {1} |-> Idle]
        /\ memo = NoMemo

\* a caller invokes obj(sex, H, W, g), obj.forward_F(H, W, g) or
\* obj.forward_M(H, W, g); forward_F and forward_M take no sex argument
Invoke(t, Hs, Ws, Gs) ==
  /\ frame[t].pc = "idle"
  /\ \E self \in Classes, entry \in Entries, sex \in SexTags,
        H \in Hs, W \in Ws, g \in Gs :
       /\ entry = "forward_F" => sex = Sex_F
       /\ entry = "forward_M" => sex = Sex_M
       /\ frame' = [frame EXCEPT ![t] =
            [pc |-> IF entry = "__call__" THEN "operator()" ELSE entry,
             entry |-> entry, self |-> self, sex |-> sex,
             H |-> H, W |-> W, g |-> g,
             entered |-> {IF entry = "__call__" THEN "operator()" ELSE entry},
             ret |-> Value(Zero)]]
  /\ UNCHANGED memo

\* operator() with the two branches exchanged
Dispatch_swapped(t) ==
  /\ frame[t].pc = "operator()"
  /\ LET a == Args(t)
     IN  frame' = [frame EXCEPT ![t] =
           IF a.sex = Sex_M
           THEN [@ EXCEPT !.pc = "forward_F",
                          !.entered = @ \cup {"forward_F"}]
           ELSE IF a.sex = Sex_F
           THEN [@ EXCEPT !.pc = "forward_M",
                          !.entered = @ \cup {"forward_M"}]
           ELSE [@ EXCEPT !.pc = "done", !.ret = Throw("Invalid sex")]]
  /\ UNCHANGED memo

\* operator() with a plain else for the male branch and no throw
Dispatch_fallthrough(t) ==
  /\ frame[t].pc = "operator()"
  /\ LET a == Args(t)
     IN  frame' = [frame EXCEPT ![t] =
           IF a.sex = Sex_F
           THEN [@ EXCEPT !.pc = "forward_F",
                          !.entered = @ \cup {"forward_F"}]
           ELSE [@ EXCEPT !.pc = "forward_M",
                          !.entered = @ \cup {"forward_M"}]]
  /\ UNCHANGED memo

\* operator(): the test on sex, up to the virtual call or the throw
Dispatch(t) ==
  /\ frame[t].pc = "operator()"
  /\ LET a == Args(t)
     IN  frame' = [frame EXCEPT ![t] =
           IF a.sex = Sex_F
           THEN [@ EXCEPT !.pc = "forward_F",
                          !.entered = @ \cup {"forward_F"}]
           ELSE IF a.sex = Sex_M
           THEN [@ EXCEPT !.pc = "forward_M",
                          !.entered = @ \cup {"forward_M"}]
           ELSE [@ EXCEPT !.pc = "done", !.ret = Throw("Invalid sex")]]
  /\ UNCHANGED memo

\* forward_F with hidden state: its value changes sign once an earlier
\* outcome exists
EvalF_stateful(t) ==
  /\ frame[t].pc = "forward_F"
  /\ LET a == Args(t)
         r == forward_F(a.self, a.H, a.W, a.g)
     IN  frame' = [frame EXCEPT ![t] =
           [@ EXCEPT !.pc = "done",
                     !.ret = IF memo # NoMemo /\ r.k = "return"
                             THEN Value(DNeg(r.v)) ELSE r]]
  /\ UNCHANGED memo

\* the body of forward_F of the object's class; operator() returns its
\* value and lets its exception through
EvalF(t) ==
  /\ frame[t].pc = "forward_F"
  /\ LET a == Args(t)
     IN  frame' = [frame EXCEPT ![t] =
           [@ EXCEPT !.pc = "done", !.ret = forward_F(a.self, a.H, a.W, a.g)]]
  /\ UNCHANGED memo

\* the body of forward_M of the object's class
EvalM(t) ==
  /\ frame[t].pc = "forward_M"
  /\ LET a == Args(t)
     IN  frame' = [frame EXCEPT ![t] =
           [@ EXCEPT !.pc = "done", !.ret = forward_M(a.self, a.H, a.W, a.g)]]
  /\ UNCHANGED memo

\* the caller takes the outcome and goes on to its next call
Return(t) ==
  /\ frame[t].pc = "done"
  /\ frame' = [frame EXCEPT ![t] = Idle]
  /\ UNCHANGED memo

Next == \/ \E t \in DOMAIN frame : Invoke(t, Heights, Weights, Adjustments)
        \/ \E t \in DOMAIN frame : Dispatch(t)
        \/ \E t \in DOMAIN frame : EvalF(t)
        \/ \E t \in DOMAIN frame : EvalM(t)
        \/ \E t \in DOMAIN frame : Return(t)

Spec == Init /\ [][Next]_vars

(***************************************************************************)
(* Repeated calls: a single caller that may keep the outcome of a call     *)
(* (with the call's entry point, object and arguments) while it goes on    *)
(* calling.                                                                *)
(***************************************************************************)
\* 1.70, 0.0
FewHeights == {Fin(1, 17, 10), Fin(1, 0, 1)}

\* 70.0, 0.0
FewWeights == {Fin(1, 70, 1), Fin(1, 0, 1)}

\* 18.0, 40.0
FewAdjustments == {Fin(1, 18, 1), Fin(1, 40, 1)}

Remember(t) ==
  /\ frame[t].pc = "done"
  /\ memo' = [entry |-> frame[t].entry, self |-> frame[t].self,
              sex |-> frame[t].sex, H |-> frame[t].H, W |-> frame[t].W,
              g |-> frame[t].g, ret |-> frame[t].ret]
  /\ frame' = [frame EXCEPT ![t] = Idle]

NextRepeat ==
  \/ \E t \in DOMAIN frame : Invoke(t, FewHeights, FewWeights, FewAdjustments)
  \/ \E t \in DOMAIN frame : Dispatch(t)
  \/ \E t \in DOMAIN frame : EvalF(t)
  \/ \E t \in DOMAIN frame : EvalM(t)
  \/ \E t \in DOMAIN frame : Return(t)
  \/ \E t \in DOMAIN frame : Remember(t)

SpecRepeat == Init /\ [][NextRepeat]_vars

(***************************************************************************)
(* Concurrent callers: NumThreads threads calling the same six objects,    *)
(* their steps interleaved in every order, each call with the arguments   *)
(* (1.70, 70.0, 18.0).                                                     *)
(***************************************************************************)
InitThreads == /\ frame = [t \in Threads |-> Idle]
               /\ memo = NoMemo

NextThreads ==
  \/ \E t \in DOMAIN frame :
       Invoke(t, {Fin(1, 17, 10)}, {Fin(1, 70, 1)}, {Fin(1, 18, 1)})
  \/ \E t \in DOMAIN frame : Dispatch(t)
  \/ \E t \in DOMAIN frame : EvalF(t)
  \/ \E t \in DOMAIN frame : EvalM(t)
  \/ \E t \in DOMAIN frame : Return(t)

SpecThreads == InitThreads /\ [][NextThreads]_vars


(***************************************************************************)
(* Properties                                                              *)
(***************************************************************************)
Done(t) == frame[t].pc = "done"

ViaCall(t) == Done(t) /\ frame[t].entry = "__call__"

ValidSex(sex) == sex \in {Sex_M, Sex_F}

Sq(x) == DMul(x, x)

\* floor(x * 10^k) of a finite x >= 0, by long division
RECURSIVE Digits(_, _, _, _)
Digits(q, r, d, k) ==
  IF k = 0 THEN <<q, r>>
  ELSE Digits(10 * q + (10 * r) \div d, (10 * r) % d, d, k - 1)

\* a finite x >= 0 rounded to four decimal places, in units of 1e-4
Round4(x) == LET qr == Digits(x.n \div x.d, x.n % x.d, x.d, 4)
             IN  IF 2 * qr[2] >= x.d THEN qr[1] + 1 ELSE qr[1]

\* the formula table of the specification: female and male formula of
\* each strategy, evaluated directly
TableF(st, H, W, g) ==
  CASE st = "Widmark" -> Dec(55, 2)
    [] st = "Watson"  ->
         DAdd(Dec(29218, 5), DDiv(DSub(DMul(Dec(12666, 3), H), Dec(24846, 4)), W))
    [] st = "Forrest" -> DSub(Dec(8736, 4), DDiv(DMul(Dec(124, 4), W), Sq(H)))
    [] st = "Seidl"   ->
         DAdd(DSub(Dec(31223, 5), DMul(Dec(6446, 6), W)), DMul(Dec(4466, 4), H))
    [] st = "Average" ->
         DSub(DSub(DAdd(Dec(50766, 5), DMul(Dec(11165, 5), H)),
                   DMul(W, DAdd(Dec(1612, 6), DDiv(Dec(31, 4), Sq(H))))),
              DMul(DDiv(FromInt(1), W),
                   DSub(Dec(62115, 5), DMul(Dec(31665, 4), H))))

TableM(st, H, W, g) ==
  CASE st = "Widmark" -> Dec(68, 2)
    [] st = "Watson"  ->
         DAdd(Dec(39834, 5),
              DDiv(DAdd(DSub(DMul(Dec(12725, 3), H), DMul(Dec(11275, 5), g)),
                        Dec(28993, 4)), W))
    [] st = "Forrest" -> DSub(Dec(10178, 4), DDiv(DMul(Dec(12127, 6), W), Sq(H)))
    [] st = "Seidl"   ->
         DAdd(DSub(Dec(31608, 5), DMul(Dec(4821, 6), W)), DMul(Dec(4632, 4), H))
    [] st = "Ulrich"  ->
         DAdd(DSub(Dec(715, 3), DMul(Dec(462, 5), W)), DMul(Dec(22, 2), H))
    [] st = "Average" ->
         DAdd(DSub(DAdd(Dec(62544, 5), DMul(Dec(13664, 5), H)),
                   DMul(W, DAdd(Dec(189, 5), DDiv(Dec(2425, 6), Sq(H))))),
              DMul(DDiv(FromInt(1), W),
                   DSub(DAdd(Dec(57986, 5), DMul(Dec(2545, 3), H)),
                        DMul(Dec(2255, 5), g))))

\* the outcome of the call of frame f, had it been given adjustment g
OutcomeWith(f, g) ==
  CASE f.entry = "__call__"  -> operator_call(f.self, f.sex, f.H, f.W, g)
    [] f.entry = "forward_F" -> forward_F(f.self, f.H, f.W, g)
    [] f.entry = "forward_M" -> forward_M(f.self, f.H, f.W, g)

\* the outcome of the call of frame f when it runs alone
Alone(f) == OutcomeWith(f, f.g)

\* C1: a completed call with a valid sex, other than Ulrich/female, returns
\* the value of the specification's formula table for the same (H, W, g).
\* Both sides are evaluated exactly, so they are compared for equality: a
\* finite value equal, an infinity of the same sign, NaN where the table's
\* formula is NaN.
C1_CallMatchesTable ==
  \A t \in DOMAIN frame :
    (ViaCall(t) /\ ValidSex(frame[t].sex)
       /\ ~(frame[t].self = "Ulrich" /\ frame[t].sex = Sex_F))
    => /\ frame[t].ret.k = "return"
       /\ frame[t].ret.v =
            IF frame[t].sex = Sex_F
            THEN TableF(frame[t].self, frame[t].H, frame[t].W, frame[t].g)
            ELSE TableM(frame[t].self, frame[t].H, frame[t].W, frame[t].g)

C1_Witness ==
  \E t \in DOMAIN frame :
    /\ ViaCall(t) /\ frame[t].self = "Average" /\ frame[t].sex = Sex_M
    /\ frame[t].H = Fin(1, 17, 10) /\ frame[t].W = Fin(1, 70, 1)
    /\ frame[t].g = Fin(1, 18, 1)
    /\ frame[t].ret = Value(Fin(1, 739389569, 1011500000))

\* C2: call(Female, ...) ends with the outcome of forward_F of the same
\* strategy and never enters forward_M; call(Male, ...) ends with the
\* outcome of forward_M and never enters forward_F.
C2_DispatchBySex ==
  \A t \in DOMAIN frame :
    /\ (ViaCall(t) /\ frame[t].sex = Sex_F)
         => /\ frame[t].ret = forward_F(frame[t].self, frame[t].H, frame[t].W, frame[t].g)
            /\ frame[t].entered = {"operator()", "forward_F"}
    /\ (ViaCall(t) /\ frame[t].sex = Sex_M)
         => /\ frame[t].ret = forward_M(frame[t].self, frame[t].H, frame[t].W, frame[t].g)
            /\ frame[t].entered = {"operator()", "forward_M"}
    /\ (frame[t].entry = "__call__" /\ frame[t].sex = Sex_F)
         => "forward_M" \notin frame[t].entered
    /\ (frame[t].entry = "__call__" /\ frame[t].sex = Sex_M)
         => "forward_F" \notin frame[t].entered

C2_Witness ==
  \E t \in DOMAIN frame :
    /\ ViaCall(t) /\ frame[t].self = "Seidl" /\ frame[t].sex = Sex_F
    /\ frame[t].H = Fin(1, 17, 10) /\ frame[t].W = Fin(1, 70, 1)
    /\ frame[t].ret = Seidl_forward_F(frame[t].H, frame[t].W, frame[t].g)
    /\ frame[t].ret # Seidl_forward_M(frame[t].H, frame[t].W, frame[t].g)

\* C3: Ulrich's female branch throws "No estimator available" for every
\* input, reached through the call operator or through forward_F directly;
\* Ulrich's male branch returns a value for the same inputs.
C3_UlrichFemaleUnavailable ==
  \A t \in DOMAIN frame :
    (Done(t) /\ frame[t].self = "Ulrich")
    => /\ ((frame[t].entry = "__call__" /\ frame[t].sex = Sex_F)
             \/ frame[t].entry = "forward_F")
          => frame[t].ret = Throw("No estimator available")
       /\ ((frame[t].entry = "__call__" /\ frame[t].sex = Sex_M)
             \/ frame[t].entry = "forward_M")
          => /\ frame[t].ret.k = "return"
             /\ forward_F("Ulrich", frame[t].H, frame[t].W, frame[t].g)
                  = Throw("No estimator available")

C3_Witness ==
  \E t \in DOMAIN frame :
    /\ ViaCall(t) /\ frame[t].self = "Ulrich" /\ frame[t].sex = Sex_F
    /\ frame[t].H = Fin(1, 17, 10) /\ frame[t].W = Fin(1, 70, 1)
    /\ frame[t].ret.k = "throw"

\* C4: a call whose sex tag is neither M nor F throws "Invalid sex" on every
\* strategy, Ulrich included, without entering forward_F or forward_M.
C4_InvalidSexThrows ==
  \A t \in DOMAIN frame :
    (ViaCall(t) /\ ~ValidSex(frame[t].sex))
    => /\ frame[t].ret = Throw("Invalid sex")
       /\ frame[t].entered = {"operator()"}

C4_Witness ==
  \E t \in DOMAIN frame :
    /\ ViaCall(t) /\ frame[t].self = "Ulrich" /\ ~ValidSex(frame[t].sex)
    /\ frame[t].ret.what = "Invalid sex"

\* C5: with a valid sex tag a call throws exactly when it is Ulrich/female;
\* every other pair returns a value, also for zero or negative H or W.
C5_OnlyUlrichFemaleFails ==
  \A t \in DOMAIN frame :
    (ViaCall(t) /\ ValidSex(frame[t].sex))
    => (frame[t].ret.k = "throw"
          <=> (frame[t].self = "Ulrich" /\ frame[t].sex = Sex_F))

\* Watson.call(Female, 1.70, 0.0, 18.0) returns +infinity
C5_Witness ==
  \E t \in DOMAIN frame :
    /\ ViaCall(t) /\ frame[t].self = "Watson" /\ frame[t].sex = Sex_F
    /\ frame[t].H = Fin(1, 17, 10) /\ frame[t].W = Fin(1, 0, 1)
    /\ frame[t].g = Fin(1, 18, 1)
    /\ frame[t].ret = Value(Inf(1))

\* the branches that read g
UsesAdjustment(f) ==
  /\ f.self \in {"Watson", "Average"}
  /\ \/ f.entry = "forward_M"
     \/ f.entry = "__call__" /\ f.sex = Sex_M

\* C6: outside Watson/male and Average/male, the outcome of a call is the
\* outcome of the same call with any other adjustment g.
C6_AdjustmentIgnored ==
  \A t \in DOMAIN frame :
    (Done(t) /\ ~UsesAdjustment(frame[t]))
    => \A g2 \in Adjustments : OutcomeWith(frame[t], g2) = frame[t].ret

C6_Witness ==
  \E t \in DOMAIN frame :
    /\ ViaCall(t) /\ frame[t].self = "Average" /\ frame[t].sex = Sex_F
    /\ frame[t].H = Fin(1, 17, 10) /\ frame[t].W = Fin(1, 70, 1)
    /\ frame[t].g = Fin(1, 40, 1)
    /\ frame[t].ret.k = "return"
    /\ OutcomeWith(frame[t], Fin(1, 18, 1)) = frame[t].ret


\* the call of frame f is the call whose outcome the caller kept
SameCall(f, m) ==
  /\ f.entry = m.entry /\ f.self = m.self /\ f.sex = m.sex
  /\ f.H = m.H /\ f.W = m.W /\ f.g = m.g

C8_ConcurrentCallsAsAlone ==
  \A t \in DOMAIN frame : Done(t) => frame[t].ret = Alone(frame[t])

\* two threads inside calls on the same object at once, one of them done
C8_Witness ==
  \E t, u \in DOMAIN frame :
    /\ t # u
    /\ Done(t) /\ frame[u].pc \in {"forward_F", "forward_M"}
    /\ frame[t].self = frame[u].self /\ frame[t].self = "Watson"
    /\ frame[t].sex # frame[u].sex
    /\ frame[t].ret.k = "return"

IsWatsonFemaleSample(f) ==
  /\ f.entry = "__call__" /\ f.self = "Watson" /\ f.sex = Sex_F
  /\ f.H = Fin(1, 17, 10) /\ f.W = Fin(1, 70, 1) /\ f.g = Fin(1, 18, 1)

\* 0.29218 + (12.666 * 1.70 - 2.4846) / 70.0
WatsonFemaleSample ==
  DAdd(Dec(29218, 5),
       DDiv(DSub(DMul(Dec(12666, 3), Fin(1, 17, 10)), Dec(24846, 4)), Fin(1, 70, 1)))

\* C9 as stated: Watson.call(Female, 1.70, 70.0, 18.0) equals
\* 0.29218 + (12.666*1.70 - 2.4846)/70.0, which is 0.5677 to four decimals.
C9_Original ==
  \A t \in DOMAIN frame :
    (Done(t) /\ IsWatsonFemaleSample(frame[t]))
    => /\ frame[t].ret = Value(WatsonFemaleSample)
       /\ Round4(frame[t].ret.v) = 5677

\* C9 as amended: Watson.call(Female, 1.70, 70.0, 18.0) equals
\* 0.29218 + (12.666*1.70 - 2.4846)/70.0, which is 0.5643 to four decimals.
C9_WatsonFemaleSample ==
  \A t \in DOMAIN frame :
    (Done(t) /\ IsWatsonFemaleSample(frame[t]))
    => /\ frame[t].ret = Value(WatsonFemaleSample)
       /\ Round4(frame[t].ret.v) = 5643

C9_Witness ==
  \E t \in DOMAIN frame :
    /\ Done(t) /\ IsWatsonFemaleSample(frame[t])
    /\ frame[t].ret = Value(Fin(1, 197501, 350000))

IsForrestMaleSample(f) ==
  /\ f.entry = "__call__" /\ f.self = "Forrest" /\ f.sex = Sex_M
  /\ f.H = Fin(1, 17, 10) /\ f.W = Fin(1, 70, 1) /\ f.g = Fin(1, 18, 1)

\* 1.0178 - 0.012127 * 70 / (1.70^2)
ForrestMaleSample ==
  DSub(Dec(10178, 4),
       DDiv(DMul(Dec(12127, 6), Fin(1, 70, 1)), Sq(Fin(1, 17, 10))))

\* C10 as stated: Forrest.call(Male, 1.70, 70.0, 18.0) equals
\* 1.0178 - 0.012127*70/(1.70^2), which is 0.7294 to four decimals.
C10_Original ==
  \A t \in DOMAIN frame :
    (Done(t) /\ IsForrestMaleSample(frame[t]))
    => /\ frame[t].ret = Value(ForrestMaleSample)
       /\ Round4(frame[t].ret.v) = 7294

\* C10 as amended: Forrest.call(Male, 1.70, 70.0, 18.0) equals
\* 1.0178 - 0.012127*70/(1.70^2), which is 0.7241 to four decimals.
C10_ForrestMaleSample ==
  \A t \in DOMAIN frame :
    (Done(t) /\ IsForrestMaleSample(frame[t]))
    => /\ frame[t].ret = Value(ForrestMaleSample)
       /\ Round4(frame[t].ret.v) = 7241

C10_Witness ==
  \E t \in DOMAIN frame :
    /\ Done(t) /\ IsForrestMaleSample(frame[t])
    /\ frame[t].ret = Value(Fin(1, 261569, 361250))

=============================================================================
